---- MODULE Spec2Model ----
(***************************************************************************)
(* A model of the mail-magic / Fresh Inbox extension:                      *)
(*   - the Gmail filter repository of the background script                *)
(*     (getMailMagicFilter, createFilter, deleteFilter, unsubscribe),      *)
(*   - the delete-all loop (deleteAllMails, batchDeleteEmails),            *)
(*   - the Newsletter component's action state (actionInProgressFor,       *)
(*     selectedEmails, refreshTable).                                      *)
(* Strings of the Gmail query language are modelled as sequences of        *)
(* lexical tokens, so that building and parsing a query are two different  *)
(* computations.                                                           *)
(***************************************************************************)
EXTENDS Integers, Sequences, FiniteSets, TLC

VARIABLES
    filters,        \* the account's filters on the Gmail server, in listing order
    nextFilterId,   \* the number the server gives the next created filter
    lastCall,       \* the last call of a background function and what it returned
    pages,          \* the sender's messages as the server pages them (ids per page)
    cursor,         \* "live": a page lists what is still in the mailbox;
                    \* "snapshot": a page token replays the page as first listed
    mailbox,        \* ids of the sender's messages still on the server
    dPc,            \* where the deleteAllMails run is
    nextPageToken,  \* deleteAllMails' local nextPageToken
    dLog,           \* the requests and responses of the run, in order
    dResult,        \* what the promise of deleteAllMails settled to
    newsletterEmails,            \* Newsletter's state: the rows of the table
    selectedEmails,              \* the checked rows
    isFetchingNewsletterEmails,  \* the large spinner is shown
    errorMsg,                    \* the error shown in place of the table
    actionInProgressFor,         \* null or {emails, action}
    inFlight,                    \* the email-action effects that have not returned
    loadPc,                      \* where the initial-load effect is
    storedNewsletterEmails       \* chrome.storage.local[NEWSLETTER_EMAILS]

filterVars == <<filters, nextFilterId, lastCall>>

deleteVars == <<pages, cursor, mailbox, dPc, nextPageToken, dLog, dResult>>

uiVars == <<newsletterEmails, selectedEmails, isFetchingNewsletterEmails, errorMsg,
           actionInProgressFor, inFlight, loadPc, storedNewsletterEmails>>

vars == <<filterVars, deleteVars, uiVars>>

-----------------------------------------------------------------------------
(* Bounds of the model *)

\* filters on the server when the extension starts
MaxInitialFilters == 2
\* filters the server can hold in total
MaxFilters == 3
\* pages of one sender's search result
MaxPages == 3
\* ids on one page (the model's stand-in for API_MAX_RESULT = 500)
MaxPageSize == 2
\* page fetches followed in one deleteAllMails run
MaxFetches == 5
\* rows of the table the user clicks on
MaxRows == 2
\* lengths of the newsletter lists the background script returns: a short
\* list and one just above the refresh threshold
ShortList == 2
LongList == 61
\* email actions running at once
MaxInFlight == 2

-----------------------------------------------------------------------------
(* Values *)

MAIL_MAGIC_FILTER_EMAIL == "filter@getfreshinbox.com"

TRASH_ACTION == "TRASH"

\* let nextPageToken: string | null = null; a page token is a page's number
NullToken == 0

\* the senders of the model's mailbox
Senders == {"a@x.com", "b@x.com"}

\* JavaScript's two empty values, and a wrapped value, as results of a call
Undefined == [kind |-> "undefined"]
Null == [kind |-> "null"]

\* {filterId, emails}: the FilterEmails object
FilterEmails(filterId, emails) ==
    [kind |-> "FilterEmails", filterId |-> filterId, emails |-> emails]

Range(s) == {s[i] : i \in 1..Len(s)}

\* the address lists createFilter is called with
AddressLists ==
    {<<"a@x.com">>, <<"a@x.com", "b@x.com">>,
     <<MAIL_MAGIC_FILTER_EMAIL, "a@x.com">>,
     <<"b@x.com", MAIL_MAGIC_FILTER_EMAIL>>}

\* an array of n newsletter rows (row i stands for the i-th sender), and null
Rows(n) == [kind |-> "array", length |-> n]

\* the Newsletter component is not on the page
UiUnmounted ==
    /\ newsletterEmails = Rows(0)
    /\ selectedEmails = {}
    /\ isFetchingNewsletterEmails = FALSE
    /\ errorMsg = ""
    /\ actionInProgressFor = Null
    /\ inFlight = <<>>
    /\ loadPc = "unmounted"
    /\ storedNewsletterEmails = Rows(0)

-----------------------------------------------------------------------------
(* Filter query codec *)

\* Array.prototype.toString of the mapped array: the elements joined by ","
RECURSIVE JoinComma(_)
JoinComma(parts) ==
    IF Len(parts) = 0 THEN <<>>
    ELSE IF Len(parts) = 1 THEN parts[1]
    ELSE parts[1] \o <<",">> \o JoinComma(Tail(parts))

\* the query had every address been put into one from: clause:
\* `{from:${emails} }`
criteriaQueryOneClause(emails) ==
    <<"{", "from:">>
    \o JoinComma([i \in 1..Len(emails) |-> <<emails[i]>>])
    \o <<" ", "}">>

\* `{${emails.map(email => `from:${email} `)}}`
criteriaQuery(emails) ==
    <<"{">>
    \o JoinComma([i \in 1..Len(emails) |-> <<"from:", emails[i], " ">>])
    \o <<"}">>

\* every address that follows a from: operator, in order
getEmailsFromFilterQuery(query) ==
    LET idx == {i \in 1..(Len(query) - 1) : query[i] = "from:"}
        RECURSIVE Collect(_)
        Collect(i) ==
            IF i > Len(query) THEN <<>>
            ELSE IF i \in idx THEN <<query[i + 1]>> \o Collect(i + 1)
            ELSE Collect(i + 1)
    IN Collect(1)

\* decode fails (MalformedQuery) when the query has no from: clause
MalformedQuery(query) == Len(getEmailsFromFilterQuery(query)) = 0

-----------------------------------------------------------------------------
(* The Gmail server's filter endpoints *)

FilterIds(fs) == {fs[i].id : i \in 1..Len(fs)}

\* outcomes of one fetch: the server handles the request, the server refuses it
\* with a non-2xx answer (the promise still resolves), or the promise rejects
FetchOutcomes == {"ok", "http_error", "network_error"}

FILTERS_URL == "https://gmail.googleapis.com/gmail/v1/users/me/settings/filters"

\* GET /settings/filters: the body of the response
ListFiltersResponse(outcome) ==
    IF outcome = "ok" THEN [status |-> "ok", filters |-> filters]
    ELSE [status |-> outcome]

\* POST /settings/filters: the filters after the request
ServerCreateFilter(body, outcome) ==
    IF outcome = "ok"
    THEN Append(filters, [id |-> "f" \o ToString(nextFilterId),
                          query |-> body.criteria.query,
                          addLabelIds |-> body.action.addLabelIds])
    ELSE filters

\* DELETE <url>: the route /settings/filters/{id} removes filter id; any other
\* url is answered 404 and removes nothing
ServerDelete(url, outcome) ==
    IF outcome = "ok"
    THEN SelectSeq(filters, LAMBDA f : FILTERS_URL \o "/" \o f.id # url)
    ELSE filters

-----------------------------------------------------------------------------
(* Filter repository (background script) *)

\* filter.action.addLabelIds.length = 1: the array is cut, or padded with an
\* empty slot, to one element; the assignment's value, 1, is truthy
SetLengthOne(addLabelIds) ==
    IF Len(addLabelIds) >= 1 THEN <<addLabelIds[1]>> ELSE <<"<empty>">>

\* the for...of loop of getMailMagicFilter from filter i on: how it is left
\* ("return": the bare return; "throw": the decoder throws; "end": the list is
\* exhausted) and the values of filterId and emails at that point
RECURSIVE FilterLoop(_, _)
FilterLoop(fs, i) ==
    IF i > Len(fs) THEN [exit |-> "end", filterId |-> "", emails |-> <<>>]
    ELSE IF SetLengthOne(fs[i].addLabelIds)[1] = TRASH_ACTION
    THEN IF MalformedQuery(fs[i].query)
         THEN [exit |-> "throw", filterId |-> "", emails |-> <<>>]
         ELSE LET queryEmails == getEmailsFromFilterQuery(fs[i].query)
              IN IF MAIL_MAGIC_FILTER_EMAIL \in Range(queryEmails)
                 THEN [exit |-> "return", filterId |-> fs[i].id,
                       emails |-> queryEmails]
                 ELSE FilterLoop(fs, i + 1)
    ELSE FilterLoop(fs, i + 1)

\* what getMailMagicFilter resolves to, given the listing's response
getMailMagicFilter(res) ==
    IF res.status # "ok" THEN Null              \* fetch / json / .filters throws
    ELSE LET loop == FilterLoop(res.filters, 1)
         IN CASE loop.exit = "return" -> Undefined      \* `return;`
              [] loop.exit = "throw" -> Null            \* caught
              [] OTHER ->
                   IF loop.filterId # ""
                   THEN FilterEmails(loop.filterId, loop.emails)
                   ELSE Null                    \* 'Mail Magic filter not found'

\* the body createFilter posts
createFilterBody(emails) ==
    [action |-> [addLabelIds |-> <<TRASH_ACTION>>],
     criteria |-> [query |-> criteriaQuery(emails)]]

\* deleteFilter's url had it put a "/" before the id
deleteFilterUrlWithSlash(id) == FILTERS_URL \o "/" \o id

\* the url deleteFilter sends DELETE to:
\* `https://gmail.googleapis.com/gmail/v1/users/me/settings/filters${id}`
deleteFilterUrl(id) == FILTERS_URL \o id

\* what deleteFilter settles to had its fetch not been inside try/catch
deleteFilterNoCatch(outcome) ==
    IF outcome = "network_error" THEN [kind |-> "rejected"] ELSE Undefined

\* what the promise of deleteFilter settles to: a fetch that rejects is caught
\* and logged, any answer of the server (2xx or not) is logged as a success,
\* and the function returns nothing on either path
deleteFilter(outcome) ==
    IF outcome = "network_error"
    THEN Undefined      \* catch (err) { console.log(...) }
    ELSE Undefined      \* console.log('Successfully deleted filter ...')

\* the requests an unsubscribe run issues: the body of unsubscribe is empty
unsubscribeRequests(email) == <<>>

-----------------------------------------------------------------------------
(* Calls of the repository functions *)

CallGetMailMagicFilter(outcome) ==
    /\ lastCall' = [fn |-> "getMailMagicFilter", outcome |-> outcome,
                    listed |-> filters,
                    result |-> getMailMagicFilter(ListFiltersResponse(outcome))]
    /\ UNCHANGED <<filters, nextFilterId>>
    /\ UNCHANGED <<deleteVars, uiVars>>

CallCreateFilter(emails, outcome) ==
    /\ outcome = "ok" => Len(filters) < MaxFilters
    /\ filters' = ServerCreateFilter(createFilterBody(emails), outcome)
    /\ nextFilterId' = IF outcome = "ok" THEN nextFilterId + 1 ELSE nextFilterId
    /\ lastCall' = [fn |-> "createFilter", emails |-> emails, outcome |-> outcome,
                    query |-> createFilterBody(emails).criteria.query,
                    logged |-> IF outcome = "network_error"
                               THEN "Failed to create filter"
                               ELSE "Successfully created filter",
                    result |-> Undefined]
    /\ UNCHANGED <<deleteVars, uiVars>>

CallDeleteFilter(id, outcome) ==
    /\ filters' = ServerDelete(deleteFilterUrl(id), outcome)
    /\ lastCall' = [fn |-> "deleteFilter", id |-> id, outcome |-> outcome,
                    before |-> filters,
                    logged |-> IF outcome = "network_error"
                               THEN "Failed to delete filter"
                               ELSE "Successfully deleted filter",
                    result |-> deleteFilter(outcome)]
    /\ UNCHANGED nextFilterId
    /\ UNCHANGED <<deleteVars, uiVars>>

\* one run of unsubscribe({token, email}) against a server whose create and
\* delete endpoints would answer as `remote` says
CallUnsubscribe(email, remote) ==
    /\ lastCall' = [fn |-> "unsubscribe", email |-> email, remote |-> remote,
                    before |-> filters,
                    requests |-> unsubscribeRequests(email),
                    result |-> Undefined]
    /\ UNCHANGED <<filters, nextFilterId>>
    /\ UNCHANGED <<deleteVars, uiVars>>

-----------------------------------------------------------------------------
(* The filters an account can hold when the extension starts *)

\* <<query, addLabelIds>>: the app's filter, a user's trash filter for one of
\* the same senders, a filter with the marker address and two labels, a filter
\* that is no trash filter, and a trash filter without a from: clause
InitialFilterKinds ==
    {<<criteriaQuery(<<MAIL_MAGIC_FILTER_EMAIL, "a@x.com">>), <<TRASH_ACTION>>>>,
     <<<<"from:", "a@x.com">>, <<TRASH_ACTION>>>>,
     <<criteriaQuery(<<"b@x.com", MAIL_MAGIC_FILTER_EMAIL>>),
       <<TRASH_ACTION, "STARRED">>>>,
     <<<<"from:", "b@x.com">>, <<"STARRED">>>>,
     <<<<"subject:", "sale">>, <<TRASH_ACTION>>>>}

InitialFilterLists ==
    UNION {[1..n -> InitialFilterKinds] : n \in 0..MaxInitialFilters}

MakeFilters(l) ==
    [i \in 1..Len(l) |-> [id |-> "f" \o ToString(i), query |-> l[i][1],
                          addLabelIds |-> l[i][2]]]

NotCalled == [fn |-> "none"]

InitFilters ==
    /\ \E l \in InitialFilterLists :
          /\ filters = MakeFilters(l)
          /\ nextFilterId = Len(l) + 1
    /\ lastCall = NotCalled

\* the filter repository alone: no deleteAllMails run
Init ==
    /\ InitFilters
    /\ pages = <<>> /\ cursor = "live" /\ mailbox = {}
    /\ dPc = "idle" /\ nextPageToken = NullToken /\ dLog = <<>>
    /\ dResult = [kind |-> "pending"]
    /\ UiUnmounted

Remotes == [create : {"ok", "network_error"}, delete : {"ok", "network_error"}]

Next ==
    \/ \E outcome \in FetchOutcomes : CallGetMailMagicFilter(outcome)
    \/ \E emails \in AddressLists, outcome \in FetchOutcomes :
          CallCreateFilter(emails, outcome)
    \/ \E id \in FilterIds(filters) \cup {"f0"}, outcome \in FetchOutcomes :
          CallDeleteFilter(id, outcome)
    \/ \E email \in Senders, remote \in Remotes : CallUnsubscribe(email, remote)

Spec == Init /\ [][Next]_vars

-----------------------------------------------------------------------------
(* The Gmail server's message endpoints *)

\* the ids of page k: MaxPageSize * (k - 1) + 1 ...
PageIds(k, size) == [j \in 1..size |-> MaxPageSize * (k - 1) + j]

\* the search results a sender can have: n pages, all full but the last
PageChains ==
    {<<>>} \cup
    {[k \in 1..n |-> PageIds(k, IF k < n THEN MaxPageSize ELSE last)] :
        n \in 1..MaxPages, last \in 1..MaxPageSize}

\* GET /messages?q=from:<email>&maxResults=500[&pageToken=t]: the parsed body.
\* Token k asks for page k; no token asks for page 1.  A search without
\* results has no messages key, a page whose messages are all gone lists an
\* empty array, the last page has no nextPageToken key.
ServerMessagePage(pageToken) ==
    LET k == IF pageToken = NullToken THEN 1 ELSE pageToken
        listed == IF k > Len(pages) THEN <<>>
                  ELSE IF cursor = "snapshot" THEN pages[k]
                  ELSE SelectSeq(pages[k], LAMBDA id : id \in mailbox)
    IN [hasMessages |-> k <= Len(pages),
        messages |-> listed,
        nextPageToken |-> IF k < Len(pages) THEN k + 1 ELSE NullToken]

\* a body that is no page (a refused request's error object)
ErrorBody == [hasMessages |-> FALSE, messages |-> <<>>, nextPageToken |-> NullToken]

\* POST /messages/batchDelete: the mailbox after the request
ServerBatchDelete(ids, outcome) ==
    IF outcome = "ok" THEN mailbox \ Range(ids) ELSE mailbox

-----------------------------------------------------------------------------
(* deleteAllMails and batchDeleteEmails (background script) *)

FetchEvent(pageToken) == [type |-> "fetch", pageToken |-> pageToken]
PageEvent(res, outcome) == [type |-> "page", res |-> res, outcome |-> outcome]
BatchDeleteEvent(ids) == [type |-> "batchDelete", ids |-> ids]
BatchDoneEvent(outcome) == [type |-> "batchDone", outcome |-> outcome]

EventsOf(type) == {i \in 1..Len(dLog) : dLog[i].type = type}

\* the page token the request's url carries:
\* nextPageToken ? `&pageToken=${nextPageToken}` : ''
urlPageToken(token) == IF token # NullToken THEN token ELSE NullToken

\* the test had it been `if (!parsedRes.messages)` alone
noMessagesFoundMissingOnly(parsedRes) == ~parsedRes.hasMessages

\* if (!parsedRes.messages || (parsedRes.messages && parsedRes.messages.length < 1))
noMessagesFound(parsedRes) ==
    ~parsedRes.hasMessages \/ (parsedRes.hasMessages /\ Len(parsedRes.messages) < 1)

\* if (parsedRes.nextPageToken) { nextPageToken = parsedRes.nextPageToken }
savedPageToken(token, parsedRes) ==
    IF parsedRes.nextPageToken # NullToken THEN parsedRes.nextPageToken ELSE token

\* while (nextPageToken !== null)
loopAgain(token) == token # NullToken

\* what batchDeleteEmails resolves to: it catches and logs, and returns nothing
batchDeleteEmails(outcome) == Undefined

\* the call: the locals are set and the first page is requested
deleteAllMails ==
    /\ dPc = "idle"
    /\ nextPageToken' = NullToken
    /\ dLog' = <<FetchEvent(urlPageToken(NullToken))>>
    /\ dPc' = "awaitFetch"
    /\ UNCHANGED <<pages, cursor, mailbox, dResult>>
    /\ UNCHANGED <<filterVars, uiVars>>

\* the page request settles; up to the next await
FetchResolved(outcome) ==
    /\ dPc = "awaitFetch"
    /\ IF outcome = "network_error"
       THEN \* fetch rejects and nothing catches it
            /\ dPc' = "rejected"
            /\ dResult' = [kind |-> "rejected"]
            /\ UNCHANGED <<nextPageToken, dLog>>
       ELSE LET parsedRes == IF outcome = "ok"
                             THEN ServerMessagePage(dLog[Len(dLog)].pageToken)
                             ELSE ErrorBody
            IN IF noMessagesFound(parsedRes)
               THEN \* return
                    /\ dPc' = "done"
                    /\ dResult' = Undefined
                    /\ dLog' = Append(dLog, PageEvent(parsedRes, outcome))
                    /\ UNCHANGED nextPageToken
               ELSE /\ nextPageToken' = savedPageToken(nextPageToken, parsedRes)
                    /\ dLog' = dLog \o <<PageEvent(parsedRes, outcome),
                                         BatchDeleteEvent(parsedRes.messages)>>
                    /\ dPc' = "awaitBatch"
                    /\ UNCHANGED dResult
    /\ UNCHANGED <<pages, cursor, mailbox>>
    /\ UNCHANGED <<filterVars, uiVars>>

\* the loop had it called batchDeleteEmails without await: the loop condition
\* is tested and the next page requested while the batchDelete request is
\* still outstanding
BatchDeleteResolvedNotAwaited(outcome) ==
    /\ dPc = "awaitBatch"
    /\ loopAgain(nextPageToken) => Cardinality(EventsOf("fetch")) < MaxFetches
    /\ mailbox' = ServerBatchDelete(dLog[Len(dLog)].ids, outcome)
    /\ IF loopAgain(nextPageToken)
       THEN /\ dLog' = dLog \o <<FetchEvent(urlPageToken(nextPageToken)),
                                 BatchDoneEvent(outcome)>>
            /\ dPc' = "awaitFetch"
            /\ UNCHANGED dResult
       ELSE /\ dLog' = Append(dLog, BatchDoneEvent(outcome))
            /\ dPc' = "done"
            /\ dResult' = batchDeleteEmails(outcome)
    /\ UNCHANGED <<pages, cursor, nextPageToken>>
    /\ UNCHANGED <<filterVars, uiVars>>

\* the batchDelete request settles; batchDeleteEmails returns, the loop
\* condition is tested and, if it holds, the next page is requested
BatchDeleteResolved(outcome) ==
    /\ dPc = "awaitBatch"
    /\ loopAgain(nextPageToken) => Cardinality(EventsOf("fetch")) < MaxFetches
    /\ mailbox' = ServerBatchDelete(dLog[Len(dLog)].ids, outcome)
    /\ IF loopAgain(nextPageToken)
       THEN /\ dLog' = dLog \o <<BatchDoneEvent(outcome),
                                 FetchEvent(urlPageToken(nextPageToken))>>
            /\ dPc' = "awaitFetch"
            /\ UNCHANGED dResult
       ELSE /\ dLog' = Append(dLog, BatchDoneEvent(outcome))
            /\ dPc' = "done"
            /\ dResult' = batchDeleteEmails(outcome)
    /\ UNCHANGED <<pages, cursor, nextPageToken>>
    /\ UNCHANGED <<filterVars, uiVars>>

\* one sender's mailbox, and no run yet
InitDelete ==
    /\ pages \in PageChains
    /\ cursor \in {"live", "snapshot"}
    /\ mailbox = UNION {Range(pages[k]) : k \in 1..Len(pages)}
    /\ dPc = "idle"
    /\ nextPageToken = NullToken
    /\ dLog = <<>>
    /\ dResult = [kind |-> "pending"]
    /\ filters = <<>> /\ nextFilterId = 1 /\ lastCall = [fn |-> "none"]
    /\ UiUnmounted

NextDelete ==
    \/ deleteAllMails
    \/ \E outcome \in FetchOutcomes : FetchResolved(outcome)
    \/ \E outcome \in FetchOutcomes : BatchDeleteResolved(outcome)

SpecDelete == InitDelete /\ [][NextDelete]_vars

\* The same run with dLog holding only the request that is outstanding (or the
\* last response once the run is over): what has been logged before decides
\* nothing in the code, and without it a run that goes round the loop forever
\* is a cycle of states.

\* the page request settles; up to the next await
PageFetched(outcome) ==
    /\ dPc = "awaitFetch"
    /\ IF outcome = "network_error"
       THEN /\ dPc' = "rejected"
            /\ dResult' = [kind |-> "rejected"]
            /\ UNCHANGED <<nextPageToken, dLog>>
       ELSE LET parsedRes == IF outcome = "ok"
                             THEN ServerMessagePage(dLog[Len(dLog)].pageToken)
                             ELSE ErrorBody
            IN IF noMessagesFound(parsedRes)
               THEN /\ dPc' = "done"
                    /\ dResult' = Undefined
                    /\ dLog' = <<PageEvent(parsedRes, outcome)>>
                    /\ UNCHANGED nextPageToken
               ELSE /\ nextPageToken' = savedPageToken(nextPageToken, parsedRes)
                    /\ dLog' = <<BatchDeleteEvent(parsedRes.messages)>>
                    /\ dPc' = "awaitBatch"
                    /\ UNCHANGED dResult
    /\ UNCHANGED <<pages, cursor, mailbox>>
    /\ UNCHANGED <<filterVars, uiVars>>

\* the batchDelete request settles; the loop condition is tested and, if it
\* holds, the next page is requested
BatchDeleted(outcome) ==
    /\ dPc = "awaitBatch"
    /\ mailbox' = ServerBatchDelete(dLog[Len(dLog)].ids, outcome)
    /\ IF loopAgain(nextPageToken)
       THEN /\ dLog' = <<FetchEvent(urlPageToken(nextPageToken))>>
            /\ dPc' = "awaitFetch"
            /\ UNCHANGED dResult
       ELSE /\ dLog' = <<BatchDoneEvent(outcome)>>
            /\ dPc' = "done"
            /\ dResult' = batchDeleteEmails(outcome)
    /\ UNCHANGED <<pages, cursor, nextPageToken>>
    /\ UNCHANGED <<filterVars, uiVars>>

NextDeleteLive ==
    \/ deleteAllMails
    \/ \E outcome \in FetchOutcomes : PageFetched(outcome)
    \/ \E outcome \in FetchOutcomes : BatchDeleted(outcome)

\* The remote API makes progress: a request that is outstanding is answered,
\* and a request that is made again and again is handled (2xx) at some point.
\* The runtime resumes the awaiting function once its request has settled.
SpecDeleteLive ==
    /\ InitDelete
    /\ [][NextDeleteLive]_vars
    /\ WF_vars(\E outcome \in FetchOutcomes : PageFetched(outcome))
    /\ WF_vars(\E outcome \in FetchOutcomes : BatchDeleted(outcome))
    /\ SF_vars(PageFetched("ok"))
    /\ SF_vars(BatchDeleted("ok"))

-----------------------------------------------------------------------------
(* The Newsletter component (content script) *)

\* newsletterEmails.length - selectedEmails.length < 60
REFRESH_BELOW == 60

EmailActions ==
    {"unsubscribe", "deleteAllMails", "unsubscribeAndDeeAllMails", "whitelistEmail"}

\* { emails, action }
ActionFor(emails, action) ==
    [kind |-> "action", emails |-> emails, action |-> action]

\* actionInProgressFor?.emails.length as the comparisons > 1, === 1 and > 0
\* see it: undefined compares false in all three, as 0 does
emailsLength(aip) == IF aip = Null THEN 0 ELSE Cardinality(aip.emails)

\* what chrome.runtime.sendMessage(GET_NEWSLETTER_EMAILS) can give
BackgroundResults == {[kind |-> "fail"], Rows(0), Rows(ShortList), Rows(LongList)}

\* getNewsletterEmailsData: what it returns and what it leaves in storage
getNewsletterEmailsData(shouldRefreshData, background) ==
    LET getNewsletterEmailsFromBackground ==
            IF background.kind = "fail"
            THEN [data |-> Null, stored |-> storedNewsletterEmails]   \* caught
            ELSE [data |-> background, stored |-> background]
    IN IF shouldRefreshData THEN getNewsletterEmailsFromBackground
       ELSE IF storedNewsletterEmails.length > 0
            THEN [data |-> storedNewsletterEmails, stored |-> storedNewsletterEmails]
            ELSE getNewsletterEmailsFromBackground

\* the bottom container renders the table (and not the large spinner, the
\* error message or the empty-inbox text); with newsletterEmails null the
\* render throws and nothing is shown
tableRendered ==
    /\ ~isFetchingNewsletterEmails
    /\ errorMsg = ""
    /\ newsletterEmails.kind = "array"
    /\ newsletterEmails.length > 0

\* the rows the user acts on
ClickableRows ==
    1..(IF newsletterEmails.length < MaxRows THEN newsletterEmails.length ELSE MaxRows)

\* renderActionButtons: the row shows the small spinner instead of its buttons
rowSpinner(email) ==
    /\ Cardinality(selectedEmails) < 1
    /\ emailsLength(actionInProgressFor) = 1
    /\ email \in actionInProgressFor.emails

\* isDisabled of the four row buttons
rowButtonsDisabled ==
    Cardinality(selectedEmails) > 0 \/ emailsLength(actionInProgressFor) > 1

\* the bulk bar shows the small spinner instead of its buttons
bulkSpinner == emailsLength(actionInProgressFor) > 0

\* handleDeleteAllMailsAction and handleUnsubscribeAndDeleteAction call the
\* onSuccess they are given when the action succeeded, and only then
onSuccessCalled(outcome) == outcome = "success"

\* whether the awaited action handler goes on to refreshTable: after
\* handleUnsubscribeAction and handleWhitelistAction always, for the two
\* delete actions only through onSuccess
callsRefreshTable(action, outcome) ==
    IF action \in {"unsubscribe", "whitelistEmail"} THEN TRUE
    ELSE onSuccessCalled(outcome)

\* const shouldRefreshData = newsletterEmails.length - selectedEmails.length < 60
shouldRefreshData(nlLength, selLength) == nlLength - selLength < REFRESH_BELOW

RemoveAt(seq, i) == [j \in 1..(Len(seq) - 1) |-> IF j < i THEN seq[j] ELSE seq[j + 1]]

\* setEmailActionsInProgressFor({emails, action}) and, after the render, the
\* effect on [actionInProgressFor]: the handler starts and awaits its action.
\* Its refreshTable is the one of that render: it will read that render's
\* newsletterEmails, selectedEmails (refetch) and isFetchingNewsletterEmails.
\* The emails the handler passes on are those of actionInProgressFor now; the
\* component never reads them again, so the handler's record leaves them out.
startAction(emails, action) ==
    /\ Len(inFlight) < MaxInFlight
    /\ actionInProgressFor' = ActionFor(emails, action)
    /\ inFlight' = Append(inFlight,
                          [action |-> action, stage |-> "action",
                           refetch |-> shouldRefreshData(newsletterEmails.length,
                                                         Cardinality(selectedEmails)),
                           isFetching |-> isFetchingNewsletterEmails])
    /\ UNCHANGED <<newsletterEmails, selectedEmails, isFetchingNewsletterEmails,
                   errorMsg, loadPc, storedNewsletterEmails>>
    /\ UNCHANGED <<filterVars, deleteVars>>

\* the initial-load effect after its await
InitialLoadResolved(background) ==
    /\ loadPc = "loading"
    /\ LET r == getNewsletterEmailsData(FALSE, background)
       IN /\ errorMsg' = IF r.data = Null
                         THEN "Failed to fetch newsletter emails" ELSE errorMsg
          /\ newsletterEmails' = r.data
          /\ storedNewsletterEmails' = r.stored
    /\ isFetchingNewsletterEmails' = FALSE
    /\ loadPc' = "loaded"
    /\ UNCHANGED <<selectedEmails, actionInProgressFor, inFlight>>
    /\ UNCHANGED <<filterVars, deleteVars>>

\* a click on one of a row's four buttons (for the two delete actions: and on
\* the confirm button of the modal)
ClickRowButton(email, action) ==
    /\ tableRendered
    /\ email \in ClickableRows
    /\ ~rowSpinner(email)
    /\ ~rowButtonsDisabled
    /\ startAction({email}, action)

\* a click on one of the four buttons of the bulk bar
ClickBulkButton(action) ==
    /\ tableRendered
    /\ Cardinality(selectedEmails) >= 1
    /\ ~bulkSpinner
    /\ startAction(selectedEmails, action)

\* a row's checkbox
ToggleRow(email) ==
    /\ tableRendered
    /\ email \in ClickableRows
    /\ selectedEmails' = IF email \in selectedEmails
                         THEN selectedEmails \ {email}
                         ELSE selectedEmails \cup {email}
    /\ UNCHANGED <<newsletterEmails, isFetchingNewsletterEmails, errorMsg,
                   actionInProgressFor, inFlight, loadPc, storedNewsletterEmails>>
    /\ UNCHANGED <<filterVars, deleteVars>>

\* the header's checkbox
ToggleAll ==
    /\ tableRendered
    /\ selectedEmails' = IF Cardinality(selectedEmails) = newsletterEmails.length
                         THEN {}
                         ELSE 1..newsletterEmails.length
    /\ UNCHANGED <<newsletterEmails, isFetchingNewsletterEmails, errorMsg,
                   actionInProgressFor, inFlight, loadPc, storedNewsletterEmails>>
    /\ UNCHANGED <<filterVars, deleteVars>>

\* the awaited handle...Action of handler i settles; where the code goes on to
\* refreshTable, refreshTable runs up to its await
ActionSettled(i, outcome) ==
    /\ i \in 1..Len(inFlight)
    /\ inFlight[i].stage = "action"
    /\ IF callsRefreshTable(inFlight[i].action, outcome)
       THEN /\ actionInProgressFor' = Null
            /\ selectedEmails' = {}
            /\ isFetchingNewsletterEmails' =
                  IF inFlight[i].refetch THEN TRUE
                  ELSE isFetchingNewsletterEmails
            /\ inFlight' = [inFlight EXCEPT ![i].stage = "refreshTable"]
       ELSE /\ inFlight' = RemoveAt(inFlight, i)
            /\ UNCHANGED <<actionInProgressFor, selectedEmails,
                           isFetchingNewsletterEmails>>
    /\ UNCHANGED <<newsletterEmails, errorMsg, loadPc, storedNewsletterEmails>>
    /\ UNCHANGED <<filterVars, deleteVars>>

\* refreshTable of handler i after its await
RefreshTableResolved(i, background) ==
    /\ i \in 1..Len(inFlight)
    /\ inFlight[i].stage = "refreshTable"
    /\ LET r == getNewsletterEmailsData(inFlight[i].refetch, background)
       IN /\ newsletterEmails' = IF r.data # Null /\ r.data.length > 0
                                 THEN r.data ELSE newsletterEmails
          /\ storedNewsletterEmails' = r.stored
    /\ isFetchingNewsletterEmails' =
          IF inFlight[i].isFetching THEN FALSE ELSE isFetchingNewsletterEmails
    /\ inFlight' = RemoveAt(inFlight, i)
    /\ UNCHANGED <<selectedEmails, errorMsg, actionInProgressFor, loadPc>>
    /\ UNCHANGED <<filterVars, deleteVars>>

\* the component has mounted and its initial-load effect awaits the data
InitUI ==
    /\ newsletterEmails = Rows(0)
    /\ selectedEmails = {}
    /\ isFetchingNewsletterEmails = TRUE
    /\ errorMsg = ""
    /\ actionInProgressFor = Null
    /\ inFlight = <<>>
    /\ loadPc = "loading"
    /\ storedNewsletterEmails \in {Rows(0), Rows(ShortList), Rows(LongList)}
    /\ filters = <<>> /\ nextFilterId = 1 /\ lastCall = [fn |-> "none"]
    /\ pages = <<>> /\ cursor = "live" /\ mailbox = {}
    /\ dPc = "idle" /\ nextPageToken = NullToken /\ dLog = <<>>
    /\ dResult = [kind |-> "pending"]

NextUI ==
    \/ \E background \in BackgroundResults : InitialLoadResolved(background)
    \/ \E email \in 1..MaxRows, action \in EmailActions : ClickRowButton(email, action)
    \/ \E action \in EmailActions : ClickBulkButton(action)
    \/ \E email \in 1..MaxRows : ToggleRow(email)
    \/ ToggleAll
    \/ \E i \in 1..MaxInFlight, outcome \in {"success", "failure"} :
          ActionSettled(i, outcome)
    \/ \E i \in 1..MaxInFlight, background \in BackgroundResults :
          RefreshTableResolved(i, background)

SpecUI == InitUI /\ [][NextUI]_vars

-----------------------------------------------------------------------------
(* Properties of the filter repository and of unsubscribe *)

\* the addresses of a filter's query, as a set
Addresses(f) == Range(getEmailsFromFilterQuery(f.query))

\* the filter's query names the marker address
Marked(f) == MAIL_MAGIC_FILTER_EMAIL \in Addresses(f)

HasMarked(fs) == \E i \in 1..Len(fs) : Marked(fs[i])

\* the marked filters of fs whose only action is the trash label
AppOwned(fs) ==
    {i \in 1..Len(fs) : Marked(fs[i]) /\ fs[i].addLabelIds = <<TRASH_ACTION>>}

Failed == [kind |-> "Failed"]

IsDelete(req) == req.method = "DELETE"
IsCreate(req) == req.method = "POST"

\* C1: in an unsubscribe run a delete request is issued only after a create
\* request that succeeded, and when the server's create endpoint fails the run
\* issues no delete, leaves the filters as they were and reports Failed.
C1_CreateBeforeDelete ==
    lastCall.fn = "unsubscribe" =>
        /\ \A j \in 1..Len(lastCall.requests) :
              IsDelete(lastCall.requests[j]) =>
                  /\ lastCall.remote.create = "ok"
                  /\ \E k \in 1..(j - 1) : IsCreate(lastCall.requests[k])
        /\ lastCall.remote.create # "ok" =>
              /\ \A j \in 1..Len(lastCall.requests) : ~IsDelete(lastCall.requests[j])
              /\ filters = lastCall.before
              /\ lastCall.result = Failed

C3_UnsubscribePostcondition ==
    (/\ lastCall.fn = "unsubscribe"
     /\ lastCall.remote = [create |-> "ok", delete |-> "ok"]
     /\ Cardinality(AppOwned(lastCall.before)) <= 1) =>
        LET old == AppOwned(lastCall.before)
            C == UNION {Addresses(lastCall.before[i]) : i \in old}
                    \ {MAIL_MAGIC_FILTER_EMAIL}
        IN /\ \E i \in AppOwned(filters) :
                 Addresses(filters[i]) \ {MAIL_MAGIC_FILTER_EMAIL}
                     = C \cup {lastCall.email}
           /\ \A i \in old : lastCall.before[i].id \notin FilterIds(filters)

\* C7: when the listing succeeds and every listed query decodes,
\* getMailMagicFilter returns null if no listed filter names the marker address,
\* and the id and decoded addresses of a marked trash filter if there is one.
C7_FindAppOwned ==
    (/\ lastCall.fn = "getMailMagicFilter"
     /\ lastCall.outcome = "ok"
     /\ \A i \in 1..Len(lastCall.listed) : ~MalformedQuery(lastCall.listed[i].query)) =>
        /\ ~HasMarked(lastCall.listed) => lastCall.result = Null
        /\ AppOwned(lastCall.listed) # {} =>
              \E i \in AppOwned(lastCall.listed) :
                  lastCall.result =
                      FilterEmails(lastCall.listed[i].id,
                                   getEmailsFromFilterQuery(lastCall.listed[i].query))

\* C8: the query createFilter sends has a from: clause for the marker address
\* and one for each of the caller's addresses.
C8_CreateIncludesMarker ==
    lastCall.fn = "createFilter" =>
        /\ MAIL_MAGIC_FILTER_EMAIL \in Range(getEmailsFromFilterQuery(lastCall.query))
        /\ Range(lastCall.emails) \subseteq Range(getEmailsFromFilterQuery(lastCall.query))

C13_SingleLabelRule ==
    (lastCall.fn = "getMailMagicFilter" /\ lastCall.outcome = "ok") =>
        LET loop == FilterLoop(lastCall.listed, 1)
        IN /\ \A i \in 1..Len(lastCall.listed) :
                 lastCall.listed[i].id = loop.filterId =>
                     Len(lastCall.listed[i].addLabelIds) = 1
           /\ (/\ AppOwned(lastCall.listed) = {}
               /\ \A i \in 1..Len(lastCall.listed) :
                     ~MalformedQuery(lastCall.listed[i].query)) =>
                 lastCall.result = Null

\* what getMailMagicFilter answers on an account that holds no filter
AbsentResult == getMailMagicFilter([status |-> "ok", filters |-> <<>>])

\* C15: getMailMagicFilter reports a listing that failed (a refused request, a
\* transport error) differently from the absence of the app's filter, so its
\* caller starts from the empty address set only when the filter is absent.
C15_AbsentDistinctFromFailure ==
    (lastCall.fn = "getMailMagicFilter" /\ lastCall.outcome # "ok") =>
        lastCall.result # AbsentResult

-----------------------------------------------------------------------------
(* Properties of deleteAllMails *)

\* the ids of the batchDelete requests of the run, in order
RECURSIVE BatchesFrom(_)
BatchesFrom(i) ==
    IF i > Len(dLog) THEN <<>>
    ELSE IF dLog[i].type = "batchDelete" THEN <<dLog[i].ids>> \o BatchesFrom(i + 1)
    ELSE BatchesFrom(i + 1)

RECURSIVE SumOfSizes(_)
SumOfSizes(ps) == IF Len(ps) = 0 THEN 0 ELSE Len(ps[1]) + SumOfSizes(Tail(ps))

\* every request of the run was handled by the server
AllRequestsOk ==
    \A i \in 1..Len(dLog) :
        dLog[i].type \in {"page", "batchDone"} => dLog[i].outcome = "ok"

\* the ids of the batches that succeeded before event i
RECURSIVE DeletedBefore(_)
DeletedBefore(i) ==
    IF i <= 1 THEN 0
    ELSE DeletedBefore(i - 1)
         + (IF dLog[i - 1].type = "batchDone" /\ dLog[i - 1].outcome = "ok"
            THEN Len(dLog[i - 2].ids) ELSE 0)

\* C4: a finished run over a chain of n >= 1 non-empty pages, every request
\* handled, has issued exactly n batchDelete requests, the i-th with the ids of
\* page i, and reports the number of ids of all pages as deleted.
C4_DeleteAllPagination ==
    (dPc = "done" /\ Len(pages) >= 1 /\ AllRequestsOk) =>
        /\ BatchesFrom(1) = pages
        /\ dResult = [kind |-> "deleted", count |-> SumOfSizes(pages)]

\* C5: once a page without nextPageToken has been received and processed, the
\* run requests no further page.
C5_NoFetchAfterLastPage ==
    \A i \in EventsOf("page") :
        (/\ dLog[i].outcome = "ok"
         /\ dLog[i].res.hasMessages
         /\ dLog[i].res.nextPageToken = NullToken) =>
            \A j \in EventsOf("fetch") : j < i

\* C6: after a batchDelete request that failed the run issues no page request
\* and no batchDelete request, and it reports PartialFailure with the number
\* of ids the batches before it deleted.
C6_PartialFailureStops ==
    \A i \in EventsOf("batchDone") :
        dLog[i].outcome # "ok" =>
            /\ \A j \in EventsOf("fetch") \cup EventsOf("batchDelete") : j < i
            /\ dPc = "done" =>
                  dResult = [kind |-> "PartialFailure",
                             completed |-> DeletedBefore(i)]

\* C14: a run that has started ends: it reaches completion or rejects, it does
\* not go on requesting pages forever.
C14_RunTerminates == (dPc # "idle") ~> (dPc \in {"done", "rejected"})

\* C16: a page request that fails (the fetch rejects, or its body cannot be
\* parsed) does not make deleteAllMails throw to its caller: the promise it
\* returned never rejects, the run ends with an outcome instead.
C16_ErrorsDoNotEscape == dPc # "rejected" /\ dResult.kind # "rejected"

\* C17: within a run every request (a page fetch, a batch delete) is answered
\* before the next one is issued, so at most one is outstanding, and a page is
\* fetched after the first only once the batch delete of the page before it
\* has completed.
C17_SequentialPagination ==
    /\ \A i \in 1..(Len(dLog) - 1) :
          /\ dLog[i].type = "fetch" => dLog[i + 1].type = "page"
          /\ dLog[i].type = "batchDelete" => dLog[i + 1].type = "batchDone"
    /\ \A j \in EventsOf("fetch") :
          j > 1 => /\ dLog[j - 1].type = "batchDone"
                   /\ dLog[j - 2].type = "batchDelete"

\* C17 witness: a second page has been requested, the batch delete of the
\* first page's ids having completed before.
C17_Witness ==
    \E j \in EventsOf("fetch") :
        /\ j > 1
        /\ dLog[j].pageToken # NullToken
        /\ dLog[j - 2].ids = pages[1]

\* C18: a page that comes back with no ids (no messages key, or an empty
\* list) ends the run normally: it is the last event of the run, so no batch
\* delete is issued for it and no page is requested after it, and the run has
\* returned (not thrown) - also when an earlier page had supplied a cursor.
C18_EmptyPageEndsRun ==
    \A i \in EventsOf("page") :
        Len(dLog[i].res.messages) = 0 =>
            /\ i = Len(dLog)
            /\ dPc = "done"
            /\ dResult = Undefined

\* C18 witness: the server answered a page request that carried a cursor with
\* an empty list of messages, after an earlier page had been deleted.
C18_Witness ==
    \E i \in EventsOf("page") :
        /\ dLog[i].outcome = "ok"
        /\ dLog[i].res.hasMessages
        /\ Len(dLog[i].res.messages) = 0
        /\ dLog[i - 1].pageToken # NullToken
        /\ nextPageToken # NullToken
        /\ EventsOf("batchDone") # {}

-----------------------------------------------------------------------------
(* Properties of the Newsletter component *)

\* the actions that replace the app's filter
FilterMutating == {"unsubscribe", "whitelistEmail", "unsubscribeAndDeeAllMails"}

\* the handlers still awaiting a filter-mutating action
MutatingInFlight ==
    {i \in 1..Len(inFlight) :
        inFlight[i].stage = "action" /\ inFlight[i].action \in FilterMutating}

\* C9: at most one unsubscribe / whitelist / unsubscribe-and-delete action is
\* in flight at any time: no click starts a second one while one is running.
C9_ActionsSerialized == Cardinality(MutatingInFlight) <= 1

\* C10: when every started action handler has finished, succeeded or failed,
\* actionInProgressFor is null again.
C10_ActionStateRestored == inFlight = <<>> => actionInProgressFor = Null

\* the data fetches that have set the large spinner and have not returned: the
\* initial load, and the refreshTable calls that decided to refetch
FetchesShowingSpinner ==
    {i \in 1..Len(inFlight) :
        inFlight[i].stage = "refreshTable" /\ inFlight[i].refetch}

\* C20: the large spinner is shown only while a data fetch that set it is
\* outstanding: once the fetch of every refreshTable that set
\* isFetchingNewsletterEmails (and the initial load) has returned,
\* isFetchingNewsletterEmails is false again and the table is shown.
C20_SpinnerCleared ==
    isFetchingNewsletterEmails =>
        (loadPc = "loading" \/ FetchesShowingSpinner # {})

\* C21: newsletterEmails is an array, never null, in every state of the
\* component - also after an initial load or a refresh whose
\* getNewsletterEmailsData failed and returned null - so newsletterEmails.length
\* is defined in every render.
C21_NewsletterEmailsIsArray == newsletterEmails.kind = "array"

====
